---- MODULE Spec2Model ----
\* bgrep (src/src/grep.rs): binary grep.  `run` folds over the input files,
\* reads each into one reused buffer and hands it to one of three formatters
\* (grep_filename, grep_bytes, grep_offset), each in normal or inverse polarity.
EXTENDS Integers, Sequences, FiniteSets, TLC

VARIABLES
  options,   \* args::Options: case_insensitive, inverse, non_matching, trim_ending_newline, output
  pattern,   \* Args.pattern, the pattern text as bytes
  files,     \* Args.files with what the file system / stdin / sink will answer for each
  regex,     \* the compiled pattern (build_pattern's Ok value)
  idx,       \* position of the fold's iterator: index of the input the closure runs on
  pc,        \* position inside run / the fold closure
  buffer,    \* the reused Vec<u8>
  fd1,       \* the bytes write(2) has put on file descriptor 1
  outbuf,    \* the bytes the locked stdout (a LineWriter) still holds
  mark,      \* stdout (fd and buf) as the closure found it for the current input
  matched,   \* the closure's local `matched`
  result     \* the fold accumulator, io::Result<bool>

vars == <<options, pattern, files, regex, idx, pc, buffer, fd1, outbuf, mark, matched, result>>

-----------------------------------------------------------------------------
\* Bounds of the model.

\* longest buffer handed to a formatter in SpecGrep
MaxLen == 3
\* longest pattern text
MaxPatLen == 2
\* most inputs of one run in Spec
MaxFiles == 2
\* longest input content in Spec
MaxFileLen == 1

-----------------------------------------------------------------------------
\* Bytes.

\* b'\n'
NL == 10

\* the bytes inputs are made of: 'a', 'A', '\n'
Alphabet == {97, 65, NL}

\* the bytes pattern texts are made of: 'a', '.', '*'
Meta == [dot |-> 46, star |-> 42]
PatternAlphabet == {97, Meta.dot, Meta.star}

\* "-" and "<stdin>", and the one file path "f"
Dash == <<45>>
StdinName == <<60, 115, 116, 100, 105, 110, 62>>
FilePath == <<102>>

RECURSIVE SeqsUpTo(_, _)
SeqsUpTo(S, n) ==
  IF n = 0 THEN {<<>>}
  ELSE LET shorter == SeqsUpTo(S, n - 1)
       IN shorter \cup {Append(s, x) : s \in {t \in shorter : Len(t) = n - 1}, x \in S}

\* io::Result<bool>; an error is identified by the input it came from (0: the pattern)
Ok(b) == [tag |-> "Ok", val |-> b, err |-> 0]
Err(e) == [tag |-> "Err", val |-> FALSE, err |-> e]
IsErr(r) == r.tag = "Err"

-----------------------------------------------------------------------------
\* The regex engine, for patterns made of literal bytes, '.' and '*'.

\* ASCII case folding (unicode(false), case_insensitive)
Lower(b) == IF b \in 65..90 THEN b + 32 ELSE b

\* regex syntax: '*' repeats the preceding atom; nothing to repeat is an error
RECURSIVE ParseFrom(_, _, _)
ParseFrom(p, i, atoms) ==
  IF i > Len(p) THEN [ok |-> TRUE, atoms |-> atoms]
  ELSE IF p[i] = Meta.star
       THEN IF atoms = <<>>
            THEN [ok |-> FALSE, atoms |-> <<>>]
            ELSE ParseFrom(p, i + 1, [atoms EXCEPT ![Len(atoms)].star = TRUE])
       ELSE ParseFrom(p, i + 1,
                      Append(atoms, [any |-> p[i] = Meta.dot, byte |-> p[i], star |-> FALSE]))

build_pattern(pat, opts) ==
  LET parsed == ParseFrom(pat, 1, <<>>)
  IN [ok |-> parsed.ok, atoms |-> parsed.atoms, ci |-> opts.case_insensitive]

\* unicode(false): an atom consumes one byte; dot_matches_new_line(true): '.' is any byte
ByteMatches(re, atom, b) ==
  \/ atom.any
  \/ b = atom.byte
  \/ re.ci /\ Lower(b) = Lower(atom.byte)

\* number of consecutive bytes from offset pos on that atom consumes
RECURSIVE RunLen(_, _, _, _)
RunLen(re, atom, buf, pos) ==
  IF pos < Len(buf) /\ ByteMatches(re, atom, buf[pos + 1])
  THEN 1 + RunLen(re, atom, buf, pos + 1)
  ELSE 0

\* end offset of the preferred (greedy, leftmost-first) match of atoms k.. that
\* starts at offset pos, or -1
RECURSIVE MatchAt(_, _, _, _)
RECURSIVE TryStar(_, _, _, _, _)
MatchAt(re, k, buf, pos) ==
  IF k > Len(re.atoms) THEN pos
  ELSE LET atom == re.atoms[k]
       IN IF atom.star
          THEN TryStar(re, k, buf, pos, RunLen(re, atom, buf, pos))
          ELSE IF pos < Len(buf) /\ ByteMatches(re, atom, buf[pos + 1])
               THEN MatchAt(re, k + 1, buf, pos + 1)
               ELSE -1
TryStar(re, k, buf, pos, n) ==
  LET e == MatchAt(re, k + 1, buf, pos + n)
  IN IF e # -1 THEN e
     ELSE IF n = 0 THEN -1
     ELSE TryStar(re, k, buf, pos, n - 1)

NoMatch == [found |-> FALSE, start |-> 0, end |-> 0]

\* Regex::find_at: the leftmost match starting at or after offset `from`
RECURSIVE find_at(_, _, _)
find_at(re, buf, from) ==
  IF from > Len(buf) THEN NoMatch
  ELSE LET e == MatchAt(re, 1, buf, from)
       IN IF e # -1 THEN [found |-> TRUE, start |-> from, end |-> e]
          ELSE find_at(re, buf, from + 1)

\* Regex::is_match
is_match(re, buf) == find_at(re, buf, 0).found

\* Regex::find_iter, collected: successive non-overlapping matches; an empty
\* match right at the end of the previous match is not reported.
RECURSIVE MatchesFrom(_, _, _, _)
MatchesFrom(re, buf, last_end, last_match) ==
  IF last_end > Len(buf) THEN <<>>
  ELSE LET m == find_at(re, buf, last_end)
       IN IF ~m.found THEN <<>>
          ELSE IF m.start = m.end
               THEN IF m.end = last_match
                    THEN MatchesFrom(re, buf, m.end + 1, last_match)
                    ELSE <<m>> \o MatchesFrom(re, buf, m.end + 1, m.end)
               ELSE <<m>> \o MatchesFrom(re, buf, m.end, m.end)

find_iter(re, buf) == MatchesFrom(re, buf, 0, -1)

\* the slice &buf[from..to]
Slice(buf, from, to) == SubSeq(buf, from + 1, to)

\* Regex::split, collected: the spans between the matches and the final span
RECURSIVE SplitFrom(_, _, _, _)
SplitFrom(ms, i, last, len) ==
  IF i > Len(ms) THEN << <<last, len>> >>
  ELSE << <<last, ms[i].start>> >> \o SplitFrom(ms, i + 1, ms[i].end, len)

split(re, buf) == SplitFrom(find_iter(re, buf), 1, 0, Len(buf))

-----------------------------------------------------------------------------
\* The output sink: the locked stdout, a LineWriter with a buffer of
\* StdoutCapacity bytes over file descriptor 1.  `fd` is what write(2) has put
\* on the descriptor, `buf` what the LineWriter still holds.  The descriptor
\* behaves as the sink says during one call of a formatter: the write(2) number
\* `failAt` (0: none) fails once with `errno`, and every other write(2) takes
\* at most `take` bytes of what it is given (0: all of them).  `err` is the
\* io::Error the call returns if a write fails.

\* LineWriter::new: the capacity of the buffer of stdout
StdoutCapacity == 1024

\* the errors of write(2) std tells apart: EBADF is taken as success by stdout,
\* EINTR is retried by write_all and flush_buf, any other (EIO) is returned
Errnos == {"EIO", "EBADF", "EINTR"}

\* an empty stdout whose writes all succeed in full
NeverFails ==
  [fd |-> <<>>, buf |-> <<>>, failAt |-> 0, errno |-> "none", take |-> 0, err |-> 0]

\* the writer as a call finds it
Writer(sink) == [fd |-> sink.fd, buf |-> sink.buf, calls |-> 0, failed |-> FALSE]

\* write(2) on descriptor 1: n bytes taken, or an errno
Sys(w, data, sink) ==
  LET c == w.calls + 1
      n == IF sink.take = 0 \/ Len(data) <= sink.take THEN Len(data) ELSE sink.take
  IN IF c = sink.failAt
     THEN [w |-> [w EXCEPT !.calls = c], n |-> 0, errno |-> sink.errno]
     ELSE [w |-> [w EXCEPT !.calls = c, !.fd = @ \o SubSeq(data, 1, n)],
           n |-> n, errno |-> "none"]

\* handle_ebadf: a write to a closed descriptor counts as done
handle_ebadf(r, data) ==
  IF r.errno = "EBADF" THEN [r EXCEPT !.n = Len(data), !.errno = "none"] ELSE r

\* StdoutRaw::write
RawWrite(w, data, sink) == handle_ebadf(Sys(w, data, sink), data)

\* the writer after a write whose error, if any, the caller returns
Direct(r) == IF r.errno = "none" THEN r.w ELSE [r.w EXCEPT !.failed = TRUE]

\* StdoutRaw::write_all: write(2) until all is taken, again after EINTR;
\* EBADF ends it as if all had been written
RECURSIVE RawWriteAll(_, _, _)
RawWriteAllNext(r, data, sink) ==
  CASE r.errno = "none" -> RawWriteAll(r.w, SubSeq(data, r.n + 1, Len(data)), sink)
    [] r.errno = "EINTR" -> RawWriteAll(r.w, data, sink)
    [] r.errno = "EBADF" -> r.w
    [] OTHER -> Direct(r)

RawWriteAll(w, data, sink) ==
  IF w.failed \/ data = <<>> THEN w ELSE RawWriteAllNext(Sys(w, data, sink), data, sink)

Spare(w) == StdoutCapacity - Len(w.buf)

Buffered(w, data) == IF w.failed THEN w ELSE [w EXCEPT !.buf = @ \o data]

\* BufWriter::flush_buf: write until the buffer is empty, again after EINTR;
\* on an error the bytes not yet taken stay in the buffer
RECURSIVE FlushBuf(_, _)
FlushBufNext(r, sink) ==
  CASE r.errno = "none" -> FlushBuf([r.w EXCEPT !.buf = SubSeq(@, r.n + 1, Len(@))], sink)
    [] r.errno = "EINTR" -> FlushBuf(r.w, sink)
    [] OTHER -> Direct(r)

FlushBuf(w, sink) ==
  IF w.failed \/ w.buf = <<>> THEN w ELSE FlushBufNext(RawWrite(w, w.buf, sink), sink)

\* BufWriter::write_cold on the writer f, flushed if data did not fit: a chunk
\* as large as the buffer goes to the descriptor in one write, of which the
\* bytes not taken are lost to a caller that drops the count
write_cold(f, data, sink) ==
  IF f.failed THEN f
  ELSE IF Len(data) >= StdoutCapacity THEN Direct(RawWrite(f, data, sink))
  ELSE Buffered(f, data)

\* BufWriter::write: buffer what fits, else flush first if it must
BufWrite(w, data, sink) ==
  IF w.failed THEN w
  ELSE IF Len(data) < Spare(w) THEN Buffered(w, data)
  ELSE write_cold(IF Len(data) > Spare(w) THEN FlushBuf(w, sink) ELSE w, data, sink)

\* BufWriter::write_all_cold
write_all_cold(f, data, sink) ==
  IF Len(data) >= StdoutCapacity THEN RawWriteAll(f, data, sink) ELSE Buffered(f, data)

\* BufWriter::write_all
BufWriteAll(w, data, sink) ==
  IF w.failed THEN w
  ELSE IF Len(data) < Spare(w) THEN Buffered(w, data)
  ELSE write_all_cold(IF Len(data) > Spare(w) THEN FlushBuf(w, sink) ELSE w, data, sink)

\* index of the last newline of data, 0 if it has none
LastNewline(data) ==
  LET at == {i \in 1..Len(data) : data[i] = NL}
  IN IF at = {} THEN 0 ELSE CHOOSE i \in at : \A j \in at : j <= i

\* LineWriter: a buffer that ends with a newline is flushed before more is taken
FlushIfCompletedLine(w, sink) ==
  IF ~w.failed /\ w.buf # <<>> /\ w.buf[Len(w.buf)] = NL THEN FlushBuf(w, sink) ELSE w

\* LineWriter::write_all of data whose last newline is at index i: up to it the
\* bytes go to the descriptor, through the buffer if that holds something; the
\* rest is buffered
LineWriteAllAt(w, data, i, sink) ==
  IF i = 0 THEN BufWriteAll(FlushIfCompletedLine(w, sink), data, sink)
  ELSE BufWriteAll(IF w.buf = <<>> THEN RawWriteAll(w, SubSeq(data, 1, i), sink)
                   ELSE FlushBuf(BufWriteAll(w, SubSeq(data, 1, i), sink), sink),
                   SubSeq(data, i + 1, Len(data)), sink)

\* LineWriter::write_all (what writeln! calls for each piece of its format)
LineWriteAll(w, data, sink) ==
  IF w.failed THEN w ELSE LineWriteAllAt(w, data, LastNewline(data), sink)

\* what LineWriter::write hands to the buffer after one write has taken
\* `flushed` bytes of its lines, which end at index i: nothing if no byte was
\* taken; if the lines are out, the rest of data, or nothing of it if it is as
\* large as the buffer; else the rest of the lines, or of as many of them as
\* the buffer holds
LineTail(data, i, flushed) ==
  IF flushed = 0 THEN <<>>
  ELSE IF flushed >= i
  THEN IF Len(data) - flushed >= StdoutCapacity THEN <<>>
       ELSE SubSeq(data, flushed + 1, Len(data))
  ELSE IF i - flushed <= StdoutCapacity THEN SubSeq(data, flushed + 1, i)
  ELSE LET scan_area == SubSeq(data, flushed + 1, flushed + StdoutCapacity)
           j == LastNewline(scan_area)
       IN IF j = 0 THEN scan_area ELSE SubSeq(scan_area, 1, j)

\* BufWriter::write_to_buf: as many bytes of the tail as the buffer has room for
write_to_buf(w, tail) ==
  Buffered(w, SubSeq(tail, 1, IF Len(tail) <= Spare(w) THEN Len(tail) ELSE Spare(w)))

\* LineWriter::write after the one write r of the lines: its error is returned,
\* even if EINTR; the bytes that are neither taken nor buffered are lost, the
\* count being dropped
LineWriteTail(r, data, i) ==
  IF r.errno # "none" THEN Direct(r) ELSE write_to_buf(r.w, LineTail(data, i, r.n))

\* LineWriter::write of data whose last newline is at index i, on the flushed
\* writer f
LineWriteLines(f, data, i, sink) ==
  IF f.failed THEN f ELSE LineWriteTail(RawWrite(f, SubSeq(data, 1, i), sink), data, i)

LineWriteAt(w, data, i, sink) ==
  IF i = 0 THEN BufWrite(FlushIfCompletedLine(w, sink), data, sink)
  ELSE LineWriteLines(FlushBuf(w, sink), data, i, sink)

\* LineWriter::write, whose returned count write_bytes drops
LineWrite(w, data, sink) ==
  IF w.failed THEN w ELSE LineWriteAt(w, data, LastNewline(data), sink)

\* writeln!(stdout, ...): one write_all for each piece of the formatted text,
\* then one for the newline
RECURSIVE WritePieces(_, _, _, _)
WritePieces(w, pieces, i, sink) ==
  IF i > Len(pieces) THEN LineWriteAll(w, <<NL>>, sink)
  ELSE WritePieces(LineWriteAll(w, pieces[i], sink), pieces, i + 1, sink)

WriteLn(w, pieces, sink) == WritePieces(w, pieces, 1, sink)

\* write_bytes: stdout.write(bs)?; writeln!(stdout)
write_bytes(w, bs, sink) == WriteLn(LineWrite(w, bs, sink), <<>>, sink)

Returned(w, sink, m) ==
  [fd |-> w.fd, buf |-> w.buf, res |-> IF w.failed THEN Err(sink.err) ELSE Ok(m)]

HexDigit(d) == IF d < 10 THEN 48 + d ELSE 87 + d

RECURSIVE HexDigits(_)
HexDigits(x) ==
  IF x < 16 THEN <<HexDigit(x)>>
  ELSE HexDigits(x \div 16) \o <<HexDigit(x % 16)>>

\* format!("0x{:x}", x)
Hex(x) == <<48, 120>> \o HexDigits(x)

\* write_hex: writeln!(stdout, "0x{:x}", x)
write_hex(w, x, sink) == WriteLn(w, << <<48, 120>>, HexDigits(x) >>, sink)

-----------------------------------------------------------------------------
\* grep_filename

\* matches.find(|m| { let matched = m.start() > end; end = m.end(); matched }):
\* stops at the first match that starts after `end`
RECURSIVE FindHole(_, _, _)
FindHole(ms, i, end) ==
  IF i > Len(ms) THEN [some |-> FALSE, end |-> end]
  ELSE IF ms[i].start > end THEN [some |-> TRUE, end |-> ms[i].end]
  ELSE FindHole(ms, i + 1, ms[i].end)

Xor(a, b) == a # b

\* RawFileName without the check for a hole after the last match
RawFileNameNoTail(opts, re, buf) ==
  IF opts.inverse
  THEN FindHole(find_iter(re, buf), 1, 0).some
  ELSE is_match(re, buf)

\* the boolean before `^ options.non_matching`
RawFileName(opts, re, buf) ==
  IF opts.inverse
  THEN LET inverse_match == FindHole(find_iter(re, buf), 1, 0)
       IN inverse_match.some \/ inverse_match.end < Len(buf)
  ELSE is_match(re, buf)

FileNameMatched(opts, raw) == Xor(raw, opts.non_matching)

\* if matched { writeln!(stdout, "{}", path)?; }  Ok(matched)
grep_filename(sink, opts, path, re, buf) ==
  LET m == FileNameMatched(opts, RawFileName(opts, re, buf))
      w == IF m THEN WriteLn(Writer(sink), <<path>>, sink) ELSE Writer(sink)
  IN Returned(w, sink, m)

-----------------------------------------------------------------------------
\* grep_bytes

\* for x in rest { write_bytes(x)? }, skipping empty spans when skipEmpty
RECURSIVE WriteSpans(_, _, _, _, _, _)
WriteSpans(w, spans, i, buf, skipEmpty, sink) ==
  IF i > Len(spans) \/ w.failed THEN w
  ELSE LET bs == Slice(buf, spans[i][1], spans[i][2])
       IN WriteSpans(IF skipEmpty /\ bs = <<>> THEN w ELSE write_bytes(w, bs, sink),
                     spans, i + 1, buf, skipEmpty, sink)

MatchSpans(ms) == [i \in 1..Len(ms) |-> <<ms[i].start, ms[i].end>>]

\* `matched` of the inverse branch: set from the first span that split yields
BytesInverseMatched(spans, buf) ==
  spans # <<>> /\ Slice(buf, spans[1][1], spans[1][2]) # <<>>

\* grep_bytes with non_matching applied to its result as grep_filename does
grep_bytes_xor(sink, opts, re, buf) ==
  LET spans == IF opts.inverse THEN split(re, buf) ELSE MatchSpans(find_iter(re, buf))
      w == WriteSpans(Writer(sink), spans, 1, buf, opts.inverse, sink)
      m == IF opts.inverse THEN BytesInverseMatched(spans, buf) ELSE spans # <<>>
  IN Returned(w, sink, Xor(m, opts.non_matching))

grep_bytes(sink, opts, re, buf) ==
  IF opts.inverse
  THEN LET spans == split(re, buf)
           w == WriteSpans(Writer(sink), spans, 1, buf, TRUE, sink)
       IN Returned(w, sink, BytesInverseMatched(spans, buf))
  ELSE LET spans == MatchSpans(find_iter(re, buf))
           w == WriteSpans(Writer(sink), spans, 1, buf, FALSE, sink)
       IN Returned(w, sink, spans # <<>>)

-----------------------------------------------------------------------------
\* grep_offset

\* write_hex(end)?; matched = true     (`gaps` records the hole that was found:
\* from `end` up to `upto`, the start of the match at hand or buffer.len())
Hole(st, upto, sink) ==
  LET w == write_hex(st.w, st.end, sink)
  IN [st EXCEPT !.w = w,
                !.matched = IF w.failed THEN st.matched ELSE TRUE,
                !.gaps = Append(@, <<st.end, upto>>)]

\* Advance with the cursor left at the start of the match
AdvanceToStart(st, m) == [st EXCEPT !.end = m.start]

\* end = m.end()
Advance(st, m) == [st EXCEPT !.end = m.end]

\* for m in matches { if m.start() > end { hole } end = m.end() }
RECURSIVE OffsetInverseLoop(_, _, _, _)
OffsetInverseLoop(st, ms, i, sink) ==
  IF i > Len(ms) \/ st.w.failed THEN st
  ELSE LET s1 == IF ms[i].start > st.end THEN Hole(st, ms[i].start, sink) ELSE st
       IN IF s1.w.failed THEN s1
          ELSE OffsetInverseLoop(Advance(s1, ms[i]), ms, i + 1, sink)

\* OffsetInverseTail that never looks behind the last match
OffsetInverseTailNever(st, len, sink) == st

\* if end < buffer.len() { hole }
OffsetInverseTail(st, len, sink) ==
  IF ~st.w.failed /\ st.end < len THEN Hole(st, len, sink) ELSE st

OffsetInverse(ms, len, sink) ==
  OffsetInverseTail(
    OffsetInverseLoop([w |-> Writer(sink), matched |-> FALSE, end |-> 0, gaps |-> <<>>],
                      ms, 1, sink),
    len, sink)

\* for m in matches { write_hex(m.start())? }
RECURSIVE WriteStarts(_, _, _, _)
WriteStarts(w, ms, i, sink) ==
  IF i > Len(ms) \/ w.failed THEN w
  ELSE WriteStarts(write_hex(w, ms[i].start, sink), ms, i + 1, sink)

grep_offset(sink, opts, re, buf) ==
  LET ms == find_iter(re, buf)
  IN IF opts.inverse
     THEN LET st == OffsetInverse(ms, Len(buf), sink)
          IN Returned(st.w, sink, st.matched)
     ELSE Returned(WriteStarts(Writer(sink), ms, 1, sink), sink, ms # <<>>)

\* the holes the inverse scan of grep_offset finds when every write succeeds
GapSpans(re, buf) == OffsetInverse(find_iter(re, buf), Len(buf), NeverFails).gaps

-----------------------------------------------------------------------------
\* run

OutputModes == {"FileName", "Bytes", "Offset"}

\* an input of the run: its path, the bytes read_to_end delivers (all of them,
\* or those read before the read fails), whether open / read fails, and how
\* descriptor 1 behaves while the input is formatted (failAt, errno, take)
Contents == SeqsUpTo({97, NL}, MaxFileLen)

Input(p, c, f, d) ==
  [path |-> p, content |-> c, fail |-> f,
   failAt |-> d.failAt, errno |-> d.errno, take |-> d.take]

\* a descriptor that takes every write in full
Sound == [failAt |-> 0, errno |-> "none", take |-> 0]

\* a descriptor whose k-th write(2) fails with errno e and whose other writes
\* take at most t bytes
Faulty(k, e, t) == [failAt |-> k, errno |-> e, take |-> t]

RunFaults ==
  {Faulty(k, "EIO", 0) : k \in {1, 2}}
  \cup {Faulty(1, e, 0) : e \in Errnos}
  \cup {Faulty(0, "none", 1)}

NoOutput == [fd |-> <<>>, buf |-> <<>>]

Inputs ==
  {Input(FilePath, <<>>, "open", Sound)}
  \cup {Input(FilePath, c, "read", Sound) : c \in Contents}
  \cup {Input(p, c, "none", Sound) : p \in {Dash, FilePath}, c \in Contents}
  \cup {Input(FilePath, <<97>>, "none", d) : d \in RunFaults}

RunOptions ==
  [case_insensitive : {FALSE}, inverse : BOOLEAN, non_matching : BOOLEAN,
   trim_ending_newline : BOOLEAN, output : OutputModes]

\* "a", and "*", which does not compile
RunPatterns == {<<97>>, <<Meta.star>>}

NoRegex == [ok |-> FALSE, atoms |-> <<>>, ci |-> FALSE]

Init ==
  /\ options \in RunOptions
  /\ pattern \in RunPatterns
  /\ files \in SeqsUpTo(Inputs, MaxFiles)
  /\ regex = NoRegex
  /\ idx = 0
  /\ pc = "build"
  /\ buffer = <<>>
  /\ fd1 = <<>>
  /\ outbuf = <<>>
  /\ mark = NoOutput
  /\ matched = FALSE
  /\ result = Ok(FALSE)

\* the closure returns Err(e): its value replaces the accumulator
ClosureErr(acc, e) == Err(e)

\* FoldResult that keeps only the flag of the input at hand
FoldResultLast(acc, m) == IF IsErr(acc) THEN acc ELSE Ok(m)

\* if matched { result.and(Ok(true)) } else { result }
FoldResult(acc, m) ==
  IF m THEN (IF IsErr(acc) THEN acc ELSE Ok(TRUE)) ELSE acc

\* Cleared that leaves the bytes of the previous input in place
Kept(buf) == buf

\* buffer.clear()
Cleared(buf) == <<>>

\* read_to_end(&mut buffer): appends what was read
ReadToEnd(buf, data) == buf \o data

\* if options.trim_ending_newline && buffer.last() == Some(&b'\n') { buffer.pop(); }
Trimmed(opts, buf) ==
  IF opts.trim_ending_newline /\ buf # <<>> /\ buf[Len(buf)] = NL
  THEN SubSeq(buf, 1, Len(buf) - 1)
  ELSE buf

\* the name the closure's `path` stands for after line 214
DisplayPath(p) == IF p = Dash THEN StdinName ELSE p

\* build_pattern(...).map_err(...)?
BuildPattern ==
  /\ pc = "build"
  /\ LET re == build_pattern(pattern, options)
     IN IF re.ok
        THEN /\ regex' = re
             /\ pc' = "next"
             /\ UNCHANGED result
        ELSE /\ result' = Err(0)
             /\ pc' = "done"
             /\ UNCHANGED regex
  /\ UNCHANGED <<options, pattern, files, idx, buffer, fd1, outbuf, mark, matched>>

\* the fold takes the next path and enters the closure: buffer.clear()
NextInput ==
  /\ pc = "next"
  /\ idx < Len(files)
  /\ idx' = idx + 1
  /\ buffer' = Cleared(buffer)
  /\ mark' = [fd |-> fd1, buf |-> outbuf]
  /\ pc' = "open"
  /\ UNCHANGED <<options, pattern, files, regex, fd1, outbuf, matched, result>>

\* the iterator is exhausted: the fold returns the accumulator
Finish ==
  /\ pc = "next"
  /\ idx = Len(files)
  /\ pc' = "done"
  /\ UNCHANGED <<options, pattern, files, regex, idx, buffer, fd1, outbuf, mark, matched, result>>

\* path == "-" : stdin; else File::open(&path)...?
Open ==
  /\ pc = "open"
  /\ IF files[idx].path # Dash /\ files[idx].fail = "open"
     THEN /\ result' = ClosureErr(result, idx)
          /\ pc' = "next"
     ELSE /\ pc' = "read"
          /\ UNCHANGED result
  /\ UNCHANGED <<options, pattern, files, regex, idx, buffer, fd1, outbuf, mark, matched>>

\* read_to_end(&mut buffer); if let Err(e) = read_result { return Err(e) }
Read ==
  /\ pc = "read"
  /\ buffer' = ReadToEnd(buffer, files[idx].content)
  /\ IF files[idx].fail = "read"
     THEN /\ result' = ClosureErr(result, idx)
          /\ pc' = "next"
     ELSE /\ pc' = "trim"
          /\ UNCHANGED result
  /\ UNCHANGED <<options, pattern, files, regex, idx, fd1, outbuf, mark, matched>>

Trim ==
  /\ pc = "trim"
  /\ buffer' = Trimmed(options, buffer)
  /\ pc' = "grep"
  /\ UNCHANGED <<options, pattern, files, regex, idx, fd1, outbuf, mark, matched, result>>

\* the locked stdout as the input f, i-th of the run, finds it in state `out`,
\* and the descriptor as it behaves while f is formatted
SinkOf(out, f, i) ==
  [fd |-> out.fd, buf |-> out.buf, failAt |-> f.failAt,
   errno |-> f.errno, take |-> f.take, err |-> i]

Sink == SinkOf([fd |-> fd1, buf |-> outbuf], files[idx], idx)

\* let matched = match options.output { ... }?;
Formatted(r) ==
  /\ fd1' = r.fd
  /\ outbuf' = r.buf
  /\ IF IsErr(r.res)
     THEN /\ result' = ClosureErr(result, r.res.err)
          /\ pc' = "next"
          /\ UNCHANGED matched
     ELSE /\ matched' = r.res.val
          /\ pc' = "fold"
          /\ UNCHANGED result
  /\ UNCHANGED <<options, pattern, files, regex, idx, buffer, mark>>

GrepFileName ==
  /\ pc = "grep"
  /\ options.output = "FileName"
  /\ Formatted(grep_filename(Sink, options, DisplayPath(files[idx].path), regex, buffer))

GrepBytes ==
  /\ pc = "grep"
  /\ options.output = "Bytes"
  /\ Formatted(grep_bytes(Sink, options, regex, buffer))

GrepOffset ==
  /\ pc = "grep"
  /\ options.output = "Offset"
  /\ Formatted(grep_offset(Sink, options, regex, buffer))

\* the closure's value becomes the accumulator
Fold ==
  /\ pc = "fold"
  /\ result' = FoldResult(result, matched)
  /\ pc' = "next"
  /\ UNCHANGED <<options, pattern, files, regex, idx, buffer, fd1, outbuf, mark, matched>>

Next ==
  \/ BuildPattern
  \/ NextInput
  \/ Finish
  \/ Open
  \/ Read
  \/ Trim
  \/ GrepFileName
  \/ GrepBytes
  \/ GrepOffset
  \/ Fold

Spec == Init /\ [][Next]_vars

-----------------------------------------------------------------------------
\* The formatters alone: a run of one input, taken up where the closure calls
\* the formatter, for every buffer, compiled pattern and option set in the bounds.

GrepOptions ==
  [case_insensitive : BOOLEAN, inverse : BOOLEAN, non_matching : BOOLEAN,
   trim_ending_newline : {FALSE}, output : OutputModes]

Buffers == SeqsUpTo(Alphabet, MaxLen)

\* pattern texts that compile
Patterns ==
  {p \in SeqsUpTo(PatternAlphabet, MaxPatLen) :
     /\ ParseFrom(p, 1, <<>>).ok
     /\ \A i \in 1..(Len(p) - 1) : ~(p[i] = Meta.star /\ p[i + 1] = Meta.star)}

\* how descriptor 1 behaves during the call
GrepDescriptors ==
  {Sound, Faulty(0, "none", 1), Faulty(2, "EIO", 1)}
  \cup {Faulty(k, e, 0) : k \in {1, 2}, e \in Errnos}

GrepInit ==
  /\ options \in GrepOptions
  /\ pattern \in Patterns
  /\ \E buf \in Buffers, d \in GrepDescriptors :
       /\ files = <<Input(FilePath, buf, "none", d)>>
       /\ buffer = buf
  /\ regex = build_pattern(pattern, options)
  /\ idx = 1
  /\ pc = "grep"
  /\ fd1 = <<>>
  /\ outbuf = <<>>
  /\ mark = NoOutput
  /\ matched = FALSE
  /\ result = Ok(FALSE)

GrepNext ==
  \/ GrepFileName
  \/ GrepBytes
  \/ GrepOffset

SpecGrep == GrepInit /\ [][GrepNext]_vars

-----------------------------------------------------------------------------
\* Vocabulary of the properties.

\* stdout has taken exactly the bytes x since the closure was entered for the
\* current input, and nothing of what it held or took has been discarded
Taken(x) == fd1 \o outbuf = mark.fd \o mark.buf \o x

\* the text of the lines recs: each followed by a newline
RECURSIVE LinesFrom(_, _)
LinesFrom(recs, i) ==
  IF i > Len(recs) THEN <<>> ELSE recs[i] \o <<NL>> \o LinesFrom(recs, i + 1)

Lines(recs) == LinesFrom(recs, 1)

\* descriptor 1 is not closed while the current input is formatted
DescriptorOpen == files[idx].errno # "EBADF"

Matches == find_iter(regex, buffer)
Gaps == GapSpans(regex, buffer)

\* the spans among `spans` that hold byte offset p
Holding(spans, p) == {k \in 1..Len(spans) : spans[k][1] <= p /\ p < spans[k][2]}

\* every byte of the buffer lies inside a match
MatchesCoverBuffer == \A p \in 0..(Len(buffer) - 1) : Holding(MatchSpans(Matches), p) # {}

\* the input f is given up before its buffer is scanned
Skipped(f) ==
  \/ f.path # Dash /\ f.fail = "open"
  \/ f.fail = "read"

\* the call of the formatter of the selected mode for the input f, i-th of the
\* run, on stdout as `out`
Call(f, i, out) ==
  LET buf == Trimmed(options, f.content)
      sink == SinkOf(out, f, i)
  IN CASE options.output = "FileName" ->
            grep_filename(sink, options, DisplayPath(f.path), regex, buf)
       [] options.output = "Bytes" -> grep_bytes(sink, options, regex, buf)
       [] options.output = "Offset" -> grep_offset(sink, options, regex, buf)

\* stdout as a call of a formatter leaves it
Left(r) == [fd |-> r.fd, buf |-> r.buf]

\* stdout after the first i inputs of the run
RECURSIVE StdoutAfter(_)
StdoutAfter(i) ==
  IF i = 0 THEN NoOutput
  ELSE IF Skipped(files[i]) THEN StdoutAfter(i - 1)
  ELSE Left(Call(files[i], i, StdoutAfter(i - 1)))

\* what the formatter of the selected mode returns for input i of the run
FormatterResult(i) == Call(files[i], i, StdoutAfter(i - 1))

\* input i fails: it does not open, its read fails, or a write of its output fails
InputFails(i) == Skipped(files[i]) \/ IsErr(FormatterResult(i).res)

\* the accumulator of the fold after a call of the formatter that returned r
Folded(acc, r) ==
  IF IsErr(r.res) THEN ClosureErr(acc, r.res.err) ELSE FoldResult(acc, r.res.val)

\* what run returns for the inputs fs taken in the order given: the fold from
\* input i on, with accumulator acc and stdout as `out`
RECURSIVE RunFrom(_, _, _, _)
RunCall(fs, i, acc, r) == RunFrom(fs, i + 1, Folded(acc, r), Left(r))

RunFrom(fs, i, acc, out) ==
  IF i > Len(fs) THEN acc
  ELSE IF Skipped(fs[i]) THEN RunFrom(fs, i + 1, ClosureErr(acc, i), out)
  ELSE RunCall(fs, i, acc, Call(fs[i], i, out))

RunResult(fs) == RunFrom(fs, 1, Ok(FALSE), NoOutput)

\* the orders in which n inputs can be given, and the inputs fs in order p
Orders(n) == {p \in [1..n -> 1..n] : \A i, j \in 1..n : p[i] = p[j] => i = j}

Reordered(fs, p) == [i \in 1..Len(fs) |-> fs[p[i]]]

FailingInputs == {i \in 1..Len(files) : InputFails(i)}

Least(S) == CHOOSE x \in S : \A y \in S : x <= y
Greatest(S) == CHOOSE x \in S : \A y \in S : x >= y

-----------------------------------------------------------------------------
\* Properties of run (specification Spec).

\* C1, as stated: once an input has failed to open or to be read, no later
\* input is processed: no step reads, trims or scans a buffer, or writes a line.
C1_NoInputAfterFailure ==
  [][(IsErr(result) /\ result.err >= 1 /\ files[result.err].fail # "none")
       => (pc' \in {"next", "open", "done"} /\ fd1' = fd1 /\ outbuf' = outbuf)]_vars

\* What run does where C1 fails: an input that fails to open or to be read is
\* itself never scanned and leaves stdout as it found it, and once such an input
\* has been passed the accumulator of the fold is an error; the fold goes on.
C1_FailedInputSkippedErrorKept ==
  /\ pc \in {"trim", "grep", "fold"} => files[idx].fail = "none"
  /\ \A i \in 1..idx :
       (files[i].fail # "none" /\ (i < idx \/ pc \in {"next", "done"}))
         => (IsErr(result) /\ (i = idx => (fd1 = mark.fd /\ outbuf = mark.buf)))

\* the state C1 rules out: an input after one that failed to open or to be
\* read has been scanned and has written a line
C1_Witness ==
  /\ pc = "fold"
  /\ IsErr(result)
  /\ result.err >= 1
  /\ result.err < idx
  /\ files[result.err].fail # "none"
  /\ fd1 # mark.fd

\* C2, as stated: the error run returns is that of the first failing input.
C2_FirstErrorReturned ==
  (pc = "done" /\ regex.ok /\ FailingInputs # {})
    => result = Err(Least(FailingInputs))

\* What run does where C2 fails: it returns an error exactly when some input
\* fails, and the error is that of the last failing input in input order.
C2_LastErrorReturned ==
  (pc = "done" /\ regex.ok)
    => IF FailingInputs = {}
       THEN ~IsErr(result)
       ELSE result = Err(Greatest(FailingInputs))

\* the state C2 rules out: a run in which two inputs failed has returned the
\* error of the later one
C2_Witness ==
  /\ pc = "done"
  /\ Cardinality(FailingInputs) >= 2
  /\ result = Err(Greatest(FailingInputs))
  /\ result # Err(Least(FailingInputs))

\* C5: when no input fails, run returns Ok(b) where b says whether the
\* formatter returned true for at least one input (false for no input at all);
\* and run returns the same for the same inputs given in any other order.
C5_AnyInputMatched ==
  (pc = "done" /\ regex.ok /\ FailingInputs = {})
    => /\ result = Ok(\E i \in 1..Len(files) : FormatterResult(i).res.val)
       /\ \A p \in Orders(Len(files)) : RunResult(Reordered(files, p)) = result

\* a run whose first input matched and whose last input did not has returned,
\* and so does the run over the same inputs in reverse order
C5_Witness ==
  /\ pc = "done"
  /\ Len(files) >= 2
  /\ FailingInputs = {}
  /\ FormatterResult(1).res.val
  /\ ~FormatterResult(Len(files)).res.val
  /\ result = Ok(TRUE)
  /\ \E p \in Orders(Len(files)) :
       /\ \A i \in 1..Len(files) : p[i] = Len(files) + 1 - i
       /\ Reordered(files, p) # files
       /\ RunResult(Reordered(files, p)) = Ok(TRUE)

\* C10: when an input is about to be scanned the buffer holds exactly its
\* bytes, less one trailing newline if trimming is on and the last byte is one.
C10_BufferIsCurrentInput ==
  pc = "grep"
    => LET c == files[idx].content
       IN buffer = IF options.trim_ending_newline /\ Len(c) > 0 /\ c[Len(c)] = NL
                   THEN SubSeq(c, 1, Len(c) - 1)
                   ELSE c

\* an input is about to be scanned after a longer one whose read failed midway
C10_Witness ==
  /\ pc = "grep"
  /\ idx >= 2
  /\ files[idx - 1].fail = "read"
  /\ Len(files[idx - 1].content) > Len(files[idx].content)

-----------------------------------------------------------------------------
\* Properties of the formatters (specification SpecGrep).

\* C3: in Bytes and Offset mode the boolean returned is true exactly when at
\* least one line was written for the input (stdout has taken bytes for it;
\* descriptor 1 not being closed, so that what is written is not discarded).
C3_ReturnsWhetherWritten ==
  (pc = "fold" /\ options.output \in {"Bytes", "Offset"} /\ DescriptorOpen)
    => (matched <=> ~Taken(<<>>))

\* C4: the match spans and the gap spans of the inverse scan partition the
\* buffer: every byte offset lies in exactly one of them, and none reaches
\* outside the buffer.  The inverse Offset scan writes one line for each gap,
\* its start offset, unless descriptor 1 is closed.
C4_MatchesAndGapsPartition ==
  LET spans == MatchSpans(Matches) \o Gaps
  IN /\ \A p \in 0..(Len(buffer) - 1) : Cardinality(Holding(spans, p)) = 1
     /\ \A k \in 1..Len(spans) :
          0 <= spans[k][1] /\ spans[k][1] <= spans[k][2] /\ spans[k][2] <= Len(buffer)
     /\ (pc = "fold" /\ options.output = "Offset" /\ options.inverse /\ DescriptorOpen)
          => (Taken(Lines([k \in 1..Len(Gaps) |-> Hex(Gaps[k][1])])) /\ outbuf = <<>>)

\* the inverse Offset scan has reported two gaps around at least one match
C4_Witness ==
  /\ pc = "fold"
  /\ options.output = "Offset"
  /\ options.inverse
  /\ Matches # <<>>
  /\ Len(Gaps) >= 2
  /\ fd1 = Lines(<<Hex(Gaps[1][1]), Hex(Gaps[2][1])>>)
  /\ outbuf = <<>>

\* C6: in FileName mode the path is written once when raw XOR non_matching
\* is true and not at all otherwise, and that boolean is returned; raw is
\* "there is a match" (normal) or "there is a gap" (inverse), so matches that
\* cover the whole buffer give raw = false in inverse mode.  (Written: taken by
\* stdout and put on descriptor 1, unless that is closed and discards it.)
C6_FileNameVerdict ==
  (pc = "fold" /\ options.output = "FileName")
    => LET raw == IF options.inverse THEN Gaps # <<>> ELSE Matches # <<>>
           verdict == (raw /\ ~options.non_matching) \/ (~raw /\ options.non_matching)
       IN /\ matched = verdict
          /\ DescriptorOpen => /\ Taken(IF verdict THEN Lines(<<DisplayPath(files[idx].path)>>) ELSE <<>>)
                      /\ outbuf = <<>>
          /\ (options.inverse /\ MatchesCoverBuffer) => ~raw

\* inverse FileName with non_matching on a buffer its matches cover: path written
C6_Witness ==
  /\ pc = "fold"
  /\ options.output = "FileName"
  /\ options.inverse
  /\ options.non_matching
  /\ buffer # <<>>
  /\ MatchesCoverBuffer
  /\ matched
  /\ fd1 = Lines(<<FilePath>>)

\* what the Bytes / Offset formatter does for the current input under opts, on
\* stdout as the closure found it
ContentFormatter(opts) ==
  IF options.output = "Bytes"
  THEN grep_bytes(SinkOf(mark, files[idx], idx), opts, regex, buffer)
  ELSE grep_offset(SinkOf(mark, files[idx], idx), opts, regex, buffer)

\* C7: in Bytes and Offset mode the lines written and the value returned are
\* those of the same call with non_matching flipped.
C7_NonMatchingInert ==
  (pc \in {"fold", "next"} /\ options.output \in {"Bytes", "Offset"})
    => LET flipped == ContentFormatter([options EXCEPT !.non_matching = ~@])
       IN /\ fd1 = flipped.fd
          /\ outbuf = flipped.buf
          /\ IsErr(flipped.res) <=> pc = "next"
          /\ pc = "fold" => matched = flipped.res.val

\* Bytes mode with non_matching set has written a line and returned true
C7_Witness ==
  /\ pc = "fold"
  /\ options.output = "Bytes"
  /\ options.non_matching
  /\ matched
  /\ fd1 # <<>>

\* C8, as stated: the pattern matches somewhere exactly when the gap set is not
\* the whole buffer as one gap, and one match spanning the buffer leaves no gap.
C8_IsMatchIffNotWholeGap ==
  pc = "fold"
    => /\ is_match(regex, buffer) <=> Gaps # << <<0, Len(buffer)>> >>
       /\ MatchSpans(Matches) = << <<0, Len(buffer)>> >> => Gaps = <<>>

\* C8, amended: for a non-empty buffer and matches none of which is empty,
\* the pattern matches somewhere exactly when the gap set is not the whole
\* buffer as one gap; and one match spanning the buffer leaves no gap.
C8_IsMatchIffNotWholeGapNonEmpty ==
  pc = "fold"
    => /\ (buffer # <<>> /\ \A k \in 1..Len(Matches) : Matches[k].start < Matches[k].end)
            => (is_match(regex, buffer) <=> Gaps # << <<0, Len(buffer)>> >>)
       /\ MatchSpans(Matches) = << <<0, Len(buffer)>> >> => Gaps = <<>>

\* inverse FileName has run on a non-empty buffer with no match at all: the
\* whole buffer is the one gap
C8_Witness ==
  /\ pc = "fold"
  /\ options.output = "FileName"
  /\ options.inverse
  /\ buffer # <<>>
  /\ ~is_match(regex, buffer)
  /\ Gaps = << <<0, Len(buffer)>> >>
  /\ matched # options.non_matching

\* C9: with non_matching off the three modes return the same boolean, and in
\* inverse mode Bytes writes one line per gap that Offset reports, in order:
\* the bytes of that gap, none of them empty.
C9_ModesAgree ==
  (pc = "fold" /\ ~options.non_matching)
    => LET name == grep_filename(NeverFails, options, FilePath, regex, buffer)
           bytes == grep_bytes(NeverFails, options, regex, buffer)
           offs == grep_offset(NeverFails, options, regex, buffer)
       IN /\ name.res.val = offs.res.val
          /\ bytes.res.val = offs.res.val
          /\ options.inverse
               => /\ offs.fd \o offs.buf = Lines([k \in 1..Len(Gaps) |-> Hex(Gaps[k][1])])
                  /\ bytes.fd \o bytes.buf
                       = Lines([k \in 1..Len(Gaps) |-> Slice(buffer, Gaps[k][1], Gaps[k][2])])
                  /\ \A k \in 1..Len(Gaps) : Gaps[k][1] < Gaps[k][2]

====
